---- MODULE Spec2Model ----
(***************************************************************************)
(* Model of celery/bin/worker.py: the option validators (Autoscale,        *)
(* CeleryBeat, WorkersPool), the concurrency patcher, the worker() command *)
(* body with its detach / inline dispatch, and detach().                   *)
(***************************************************************************)
EXTENDS Integers, Sequences, FiniteSets, TLC

VARIABLES
    \* ---- Autoscale.convert ----
    raw,        \* the raw --autoscale string, a sequence of characters
    outcome,    \* how Autoscale.convert ended on raw
    \* ---- one invocation of the worker command ----
    cli,        \* the invocation: the platform and the options given on the command line
    pc,         \* position of the invocation
    todo,       \* parameters still to be processed by the parser, in order
    params,     \* ctx.params: insertion-ordered name -> value map
    kwargs,     \* the **kwargs of worker()
    user_options, \* the values the second parse pass collected
    call,       \* the arguments detach() was called with
    events,     \* the side effects performed so far, in order
    exitcode,   \* worker.exitcode of the worker collaborator
    retval      \* what worker() returned

vars == <<raw, outcome, cli, pc, todo, params, kwargs, user_options, call, events, exitcode, retval>>

autoscaleVars == <<raw, outcome>>
launchVars == <<cli, pc, todo, params, kwargs, user_options, call, events, exitcode, retval>>

(***************************************************************************)
(* Bounds                                                                  *)
(***************************************************************************)
MaxLen == 4          \* longest raw --autoscale string
MaxInvoked == 2      \* most options given on the command line
MaxUserOpts == 2     \* most user options registered for 'worker'

(***************************************************************************)
(* Python values                                                           *)
(***************************************************************************)
VNone == [t |-> "none", b |-> FALSE, n |-> 0, s |-> ""]
VBool(x) == [t |-> "bool", b |-> x, n |-> 0, s |-> ""]
VInt(x) == [t |-> "int", b |-> FALSE, n |-> x, s |-> ""]
VStr(x) == [t |-> "str", b |-> FALSE, n |-> 0, s |-> x]

\* Python truthiness of a value (used by `value or default`)
Truthy(v) ==
    CASE v.t = "none" -> FALSE
      [] v.t = "bool" -> v.b
      [] v.t = "int" -> v.n # 0
      [] OTHER -> v.s # ""

DigitChars == <<"0", "1", "2", "3", "4", "5", "6", "7", "8", "9">>

RECURSIVE NatStr(_)
NatStr(n) == IF n < 10 THEN DigitChars[n + 1]
             ELSE NatStr(n \div 10) \o DigitChars[(n % 10) + 1]

\* str(value)
PyStr(v) ==
    CASE v.t = "none" -> "None"
      [] v.t = "bool" -> IF v.b THEN "True" ELSE "False"
      [] v.t = "int" -> IF v.n < 0 THEN "-" \o NatStr(-v.n) ELSE NatStr(v.n)
      [] OTHER -> v.s

(***************************************************************************)
(* Autoscale.convert                                                       *)
(***************************************************************************)
Chars == {"0", "1", "5", "-", ",", "x"}
Digits == {"0", "1", "5"}

DigitVal(c) == CASE c = "0" -> 0 [] c = "1" -> 1 [] OTHER -> 5

RawStrings == UNION {[1..n -> Chars] : n \in 0..MaxLen}

\* str.split(','): always at least one token, tokens may be empty
RECURSIVE Split(_, _, _)
Split(s, cur, acc) ==
    IF s = <<>> THEN Append(acc, cur)
    ELSE IF Head(s) = "," THEN Split(Tail(s), <<>>, Append(acc, cur))
    ELSE Split(Tail(s), Append(cur, Head(s)), acc)

AllDigits(tok) == \A i \in 1..Len(tok) : tok[i] \in Digits

\* int(tok) succeeds: an optional sign followed by at least one digit
IsInt(tok) ==
    /\ tok # <<>>
    /\ IF Head(tok) = "-" THEN Tail(tok) # <<>> /\ AllDigits(Tail(tok))
       ELSE AllDigits(tok)

RECURSIVE NatOf(_, _)
NatOf(tok, acc) == IF tok = <<>> THEN acc
                   ELSE NatOf(Tail(tok), 10 * acc + DigitVal(Head(tok)))

\* int(tok) for a token with IsInt(tok)
IntOf(tok) == IF Head(tok) = "-" THEN - NatOf(Tail(tok), 0) ELSE NatOf(tok, 0)

PyMax(a, b) == IF a >= b THEN a ELSE b
PyMin(a, b) == IF a >= b THEN b ELSE a

\* tuple(reversed(sorted(pair)))
ReversedSorted(a, b) == <<PyMax(a, b), PyMin(a, b)>>

Returned(pair) == [kind |-> "return", pair |-> pair, msg |-> ""]
Fail(msg) == [kind |-> "fail", pair |-> <<0, 0>>, msg |-> msg]
Raised(exc) == [kind |-> exc, pair |-> <<0, 0>>, msg |-> ""]
NotRun == [kind |-> "pending", pair |-> <<0, 0>>, msg |-> ""]

\* The single-token branch returning the pair of line 101 as built.
SingleTokenNoSort(tok) ==
    IF IsInt(tok) THEN Returned(<<IntOf(tok), 0>>)
    ELSE Fail("Expected an integer.")

\* lines 99-106 for a one-token value: (int(tok), 0) is built, then control
\* falls through to the sorting return of line 106
SingleToken(tok) ==
    IF IsInt(tok) THEN Returned(ReversedSorted(IntOf(tok), 0))
    ELSE Fail("Expected an integer.")

\* The two-token branch without reversed(): ascending order.
TwoTokensAscending(t1, t2) ==
    IF IsInt(t1) /\ IsInt(t2)
    THEN Returned(<<PyMin(IntOf(t1), IntOf(t2)), PyMax(IntOf(t1), IntOf(t2))>>)
    ELSE Raised("AttributeError")

\* lines 105-109 for a two-token value: the ValueError handler evaluates
\* value.join(',') on a list, which raises AttributeError before self.fail
TwoTokens(t1, t2) ==
    IF IsInt(t1) /\ IsInt(t2)
    THEN Returned(ReversedSorted(IntOf(t1), IntOf(t2)))
    ELSE Raised("AttributeError")

AutoscaleConvert(value) ==
    LET toks == Split(value, <<>>, <<>>) IN
    IF Len(toks) > 2 THEN Fail("Expected two comma separated integers or one integer.")
    ELSE IF Len(toks) = 1 THEN SingleToken(toks[1])
    ELSE TwoTokens(toks[1], toks[2])

(***************************************************************************)
(* Insertion-ordered maps (dict): sequences of [k, v] entries              *)
(***************************************************************************)
Keys(d) == {d[i].k : i \in 1..Len(d)}

HasKey(d, k) == k \in Keys(d)

\* d.get(k, default)
Get(d, k, default) ==
    IF HasKey(d, k) THEN d[CHOOSE i \in 1..Len(d) : d[i].k = k].v ELSE default

\* d[k] = v: an existing key keeps its position, a new key goes last
SetItem(d, k, v) ==
    IF HasKey(d, k) THEN [i \in 1..Len(d) |-> IF d[i].k = k THEN [k |-> k, v |-> v] ELSE d[i]]
    ELSE Append(d, [k |-> k, v |-> v])

\* A merge that keeps the entries the map already has.
RECURSIVE DictSetDefaults(_, _)
DictSetDefaults(d, other) ==
    IF other = <<>> THEN d
    ELSE DictSetDefaults(IF HasKey(d, Head(other).k) THEN d
                         ELSE SetItem(d, Head(other).k, Head(other).v), Tail(other))

\* d.update(other)
RECURSIVE DictUpdate(_, _)
DictUpdate(d, other) ==
    IF other = <<>> THEN d
    ELSE DictUpdate(SetItem(d, Head(other).k, Head(other).v), Tail(other))

\* d.pop(k) for a set of keys: the remaining entries, order kept
PopAll(d, ks) == SelectSeq(d, LAMBDA e : e.k \notin ks)

(***************************************************************************)
(* The worker command: its options                                         *)
(***************************************************************************)
\* celery.platforms.EX_FAILURE, imported at line 13
EX_FAILURE == 1

\* The options of the command in declaration order (lines 147-300), followed
\* by the daemon options CeleryDaemonCommand adds (popped at lines 348-355).
\* Options of the same shape as one listed here are left out.
Declared ==
    <<"hostname", "detach", "statedb", "loglevel", "concurrency", "pool",
      "purge", "beat", "logfile", "pidfile", "uid", "gid", "umask", "executable">>

\* line 209: the only option declared is_eager
Eager == {"pool"}

\* The named parameters of worker() (lines 303-305); every other option
\* arrives in **kwargs
NamedParameters ==
    {"hostname", "pool_cls", "uid", "gid", "loglevel", "logfile", "pidfile", "statedb"}

\* lines 347-355: the keys popped from the copy of ctx.params
Excluded ==
    {"detach", "logfile", "pidfile", "uid", "gid", "umask", "hostname", "executable"}

\* line 67: the choices of the pool option
PoolChoices == {"prefork", "eventlet", "gevent", "solo"}

\* The value an option has when the command line does not give it
Default(name) ==
    CASE name = "hostname" -> VStr("celery@host")
      [] name = "loglevel" -> VStr("WARNING")
      [] name = "pool" -> VStr("prefork")
      [] name \in {"detach", "purge", "beat"} -> VBool(FALSE)
      [] OTHER -> VNone

\* What a command line can give, per option
Givable ==
    [k : {"detach", "purge", "beat"}, v : {VBool(TRUE)}]
    \cup [k : {"concurrency"}, v : {VInt(4)}]
    \cup [k : {"pool"}, v : {VStr(p) : p \in PoolChoices}]
    \cup [k : {"executable"}, v : {VStr("/opt/python")}]

\* What a user option registered for 'worker' can be named and resolve to
UserOptions ==
    [k : {"detach", "concurrency", "myopt"}, v : {VNone, VBool(TRUE), VInt(7)}]

DistinctKeys(d) == \A i, j \in 1..Len(d) : i # j => d[i].k # d[j].k

DictsUpTo(entries, n) ==
    {d \in UNION {[1..m -> entries] : m \in 0..n} : DistinctKeys(d)}

\* app.conf.worker_concurrency
ConfConcurrency == {VNone, VInt(2)}

\* One invocation
Invocations ==
    [isWindows : BOOLEAN, given : DictsUpTo(Givable, MaxInvoked)]

\* The user options registered for 'worker', each with the value the second
\* parse pass resolves it to (None when the command line does not give it)
UserOptionMaps == DictsUpTo(UserOptions, MaxUserOpts)

\* ctx.args: empty, or extra configuration that parses, or that does not
ExtraArgs == {"none", "valid", "invalid"}

Names(d) == [i \in 1..Len(d) |-> d[i].k]

InSeq(x, s) == \E i \in 1..Len(s) : s[i] = x

\* The order in which the parser processes the parameters: eager ones first,
\* then those given on the command line in the order given, then the rest
\* in declaration order (is_eager, line 209)
ProcessingOrder(invoked) ==
    LET given(eager) == SelectSeq(invoked, LAMBDA n : (n \in Eager) = eager)
        rest(eager) == SelectSeq(Declared,
                           LAMBDA n : (n \in Eager) = eager /\ ~InSeq(n, invoked))
    IN given(TRUE) \o rest(TRUE) \o given(FALSE) \o rest(FALSE)

Event(e, arg) == [e |-> e, arg |-> arg]

(***************************************************************************)
(* maybe_patch_concurrency, CeleryBeat.convert, WorkersPool.convert        *)
(***************************************************************************)
\* lines 20-44: the patch calls made for a pool identifier
maybe_patch_concurrency(library) ==
    IF library \in {"eventlet", "gevent"} THEN <<Event("patch", <<library>>)>>
    ELSE <<>>

\* A resolver that patches after resolving the implementation.
WorkersPoolConvertLate(value) ==
    <<Event("get_implementation", <<value>>)>> \o maybe_patch_concurrency(value)

\* lines 69-75: the side effects of WorkersPool.convert, in order
WorkersPoolConvert(value) ==
    maybe_patch_concurrency(value) \o <<Event("get_implementation", <<value>>)>>

\* concurrency.get_implementation(value): the pool class, a value that is
\* neither None nor a bool (so the `or` of line 75 keeps it)
PoolImplementation(value) == VStr("<class '" \o value \o "'>")

\* A beat validator that ignores the platform.
CeleryBeatAllows(isWindows, value) == TRUE

\* lines 52-57: whether CeleryBeat.convert returns the value (else self.fail)
CeleryBeatPasses(isWindows, value) == ~(isWindows /\ Truthy(value))

\* `value or default` of the callbacks at lines 166, 187, 196, 295
OrDefault(value, default) == IF Truthy(value) THEN value ELSE default

(***************************************************************************)
(* worker(): argument reconstruction, lines 345-374                        *)
(***************************************************************************)
\* lines 358-363: the tokens one option appends to argv
EncodeOption(arg, value) ==
    IF value.t = "bool" /\ value.b THEN <<"--" \o arg>>
    ELSE IF value.t # "none" THEN <<"--" \o arg, PyStr(value)>>
    ELSE <<>>

\* line 356
BaseArgv == <<"-m", "celery", "worker">>

NoCall ==
    [made |-> FALSE, path |-> "", argv |-> <<>>, executable |-> VNone,
     logfile |-> VNone, hostname |-> VNone]

\* lines 346-374: the call of detach() the loop makes.  The return
\* statement sits inside the loop body, so detach() is called at the end of the
\* first iteration, with the tokens of the first remaining option only; with
\* no remaining option no call is made and worker() returns None.
DetachCallOf(ctxParams) ==
    LET remaining == PopAll(ctxParams, Excluded) IN
    IF remaining = <<>> THEN NoCall
    ELSE [made |-> TRUE,
          path |-> "python",
          argv |-> BaseArgv \o EncodeOption(remaining[1].k, remaining[1].v),
          executable |-> Get(ctxParams, "executable", VNone),
          logfile |-> Get(ctxParams, "logfile", VNone),
          hostname |-> Get(ctxParams, "hostname", VNone)]

\* line 345: kwargs.get('detach', False)
DetachRequested(kw) == Truthy(Get(kw, "detach", VBool(FALSE)))

\* The inline path constructing the worker before dropping privileges.
InlineEventsLateDrop ==
    <<Event("Worker", <<>>), Event("maybe_drop_privileges", <<>>), Event("start", <<>>)>>

\* lines 375-383: the calls of the inline path, in order
InlineEvents ==
    <<Event("maybe_drop_privileges", <<>>), Event("Worker", <<>>), Event("start", <<>>)>>

\* The values worker.exitcode can have after start()
ExitCodes == {VNone, VInt(0), VInt(1), VInt(2)}

(***************************************************************************)
(* detach(), lines 120-139                                                 *)
(***************************************************************************)
\* ' '.join(tokens)
RECURSIVE JoinSpace(_)
JoinSpace(tokens) ==
    IF tokens = <<>> THEN ""
    ELSE IF Len(tokens) = 1 THEN tokens[1]
    ELSE tokens[1] \o " " \o JoinSpace(Tail(tokens))

\* lines 128-129: the path handed to os.execv
ExecPath(c) == IF c.executable.t # "none" THEN c.executable.s ELSE c.path

\* An exec failure handled without setting up logging.
ExecFailureLogOnly(c) ==
    <<Event("critical", <<JoinSpace(<<ExecPath(c)>> \o c.argv)>>)>>

\* lines 131-138: what the handler of an exec failure does
ExecFailureHandling(c) ==
    <<Event("setup_logging_subsystem", <<"ERROR">>),
      Event("critical", <<JoinSpace(<<ExecPath(c)>> \o c.argv)>>)>>

\* lines 125-130: entering detached() and calling os.execv
ExecAttempt(c) ==
    <<Event("detached", <<>>), Event("execv", <<ExecPath(c)>> \o <<ExecPath(c)>> \o c.argv)>>

(***************************************************************************)
(* Specification of one invocation                                         *)
(***************************************************************************)
AutoscaleIdle == raw = <<>> /\ outcome = NotRun

Init ==
    /\ AutoscaleIdle
    /\ cli \in Invocations
    /\ pc = "parse"
    /\ todo = ProcessingOrder(Names(cli.given))
    /\ params = <<>>
    /\ kwargs = <<>>
    /\ user_options = <<>>
    /\ call = NoCall
    /\ events = <<>>
    /\ exitcode = VNone
    /\ retval = VNone

\* The value the parser stores for an option: its type's convert, then its callback
Resolved(name, value, conf) ==
    CASE name = "pool" -> PoolImplementation(value.s)
      [] name = "concurrency" -> OrDefault(value, conf)
      [] name = "statedb" -> OrDefault(value, VNone)
      [] OTHER -> value

\* The parser processes the next parameter: pool patches and resolves the
\* implementation, beat fails on Windows, the value goes into ctx.params
ParseStep ==
    /\ pc = "parse"
    /\ todo # <<>>
    /\ LET name == Head(todo)
           value == Get(cli.given, name, Default(name))
       IN /\ events' = events \o (IF name = "pool" THEN WorkersPoolConvert(value.s)
                                  ELSE <<Event("process", <<name>>)>>)
          /\ IF name = "beat" /\ ~CeleryBeatPasses(cli.isWindows, value)
             THEN /\ pc' = "usage_error"
                  /\ UNCHANGED <<todo, params>>
             ELSE /\ \E conf \in (IF name = "concurrency" THEN ConfConcurrency ELSE {VNone}) :
                        params' = SetItem(params, name, Resolved(name, value, conf))
                  /\ todo' = Tail(todo)
                  /\ pc' = IF Tail(todo) = <<>> THEN "invoke" ELSE "parse"
    /\ UNCHANGED <<raw, outcome, cli, kwargs, user_options, call, exitcode, retval>>

\* lines 303-306: worker() is invoked with ctx.params as keyword arguments
WorkerInvoke ==
    /\ pc = "invoke"
    /\ kwargs' = PopAll(params, NamedParameters)
    /\ pc' = "resolve"
    /\ UNCHANGED <<raw, outcome, cli, todo, params, user_options, call, events, exitcode, retval>>

\* A merge in which a static option keeps its value.
MergeKeepingStatic(kw, collected) == DictSetDefaults(kw, collected)

\* line 335
MergeUserOptions(kw, collected) == DictUpdate(kw, collected)

\* lines 321-335: the second parse pass over the user options; the callback
\* records every registered option, the parser stores it in ctx.params too
ResolveDynamic ==
    /\ pc = "resolve"
    /\ \E user_opts \in UserOptionMaps :
          /\ user_options' = user_opts
          /\ IF user_opts # <<>>
             THEN /\ kwargs' = MergeUserOptions(kwargs, user_opts)
                  /\ params' = DictUpdate(params, user_opts)
             ELSE UNCHANGED <<kwargs, params>>
    /\ pc' = "config"
    /\ UNCHANGED <<raw, outcome, cli, todo, call, events, exitcode, retval>>

\* lines 337-344
ConfigFromCmdline ==
    /\ pc = "config"
    /\ \E args \in ExtraArgs :
          /\ events' = IF args = "none" THEN events
                       ELSE Append(events, Event("config_from_cmdline", <<args>>))
          /\ pc' = IF args = "invalid" THEN "usage_error" ELSE "dispatch"
    /\ UNCHANGED <<raw, outcome, cli, todo, params, kwargs, user_options, call, exitcode, retval>>

\* lines 345-374: the detach path up to the call of detach()
DetachCall ==
    /\ pc = "dispatch"
    /\ DetachRequested(kwargs)
    /\ call' = DetachCallOf(params)
    /\ pc' = IF call'.made THEN "detach" ELSE "returned"
    /\ UNCHANGED <<raw, outcome, cli, todo, params, kwargs, user_options, events, exitcode, retval>>

\* lines 375-384: the inline path
InlineRun ==
    /\ pc = "dispatch"
    /\ ~DetachRequested(kwargs)
    /\ events' = events \o InlineEvents
    /\ \E code \in ExitCodes : exitcode' = code /\ retval' = code
    /\ pc' = "returned"
    /\ UNCHANGED <<raw, outcome, cli, todo, params, kwargs, user_options, call>>

\* detach(): os.execv replaces the process image and never returns
ExecvReplaces ==
    /\ pc = "detach"
    /\ events' = events \o ExecAttempt(call)
    /\ pc' = "exec_replaced"
    /\ UNCHANGED <<raw, outcome, cli, todo, params, kwargs, user_options, call, exitcode, retval>>

\* detach(): os.execv raises; the handler logs and detach() returns EX_FAILURE,
\* which worker() returns at line 364
ExecvRaises ==
    /\ pc = "detach"
    /\ events' = events \o ExecAttempt(call) \o ExecFailureHandling(call)
    /\ retval' = VInt(EX_FAILURE)
    /\ pc' = "returned"
    /\ UNCHANGED <<raw, outcome, cli, todo, params, kwargs, user_options, call, exitcode>>

Next ==
    \/ ParseStep
    \/ WorkerInvoke
    \/ ResolveDynamic
    \/ ConfigFromCmdline
    \/ DetachCall
    \/ InlineRun
    \/ ExecvReplaces
    \/ ExecvRaises

Spec == Init /\ [][Next]_vars

(***************************************************************************)
(* Specification of Autoscale.convert on every raw string                  *)
(***************************************************************************)
LaunchIdle ==
    /\ cli = [isWindows |-> FALSE, given |-> <<>>]
    /\ pc = "idle"
    /\ todo = <<>>
    /\ params = <<>>
    /\ kwargs = <<>>
    /\ user_options = <<>>
    /\ call = NoCall
    /\ events = <<>>
    /\ exitcode = VNone
    /\ retval = VNone

AutoscaleInit ==
    /\ raw \in RawStrings
    /\ outcome = NotRun
    /\ LaunchIdle

Convert ==
    /\ outcome = NotRun
    /\ outcome' = AutoscaleConvert(raw)
    /\ UNCHANGED <<raw, cli, pc, todo, params, kwargs, user_options, call, events, exitcode, retval>>

AutoscaleNext == Convert

AutoscaleSpec == AutoscaleInit /\ [][AutoscaleNext]_vars

(***************************************************************************)
(* Properties of Autoscale.convert (under AutoscaleSpec)                   *)
(***************************************************************************)
Tokens == Split(raw, <<>>, <<>>)

Converted == outcome # NotRun

\* C7: for two comma-separated integer tokens a,b the result is the pair
\* (max(a,b), min(a,b)): first element >= second, whatever the input order;
\* '5,10' and '10,5' both give (10, 5).
C7_TwoIntegersGiveMaxMin ==
    (Converted /\ Len(Tokens) = 2 /\ IsInt(Tokens[1]) /\ IsInt(Tokens[2])) =>
        LET a == IntOf(Tokens[1])
            b == IntOf(Tokens[2])
        IN /\ outcome.kind = "return"
           /\ outcome.pair[1] >= outcome.pair[2]
           /\ outcome.pair \in {<<a, b>>, <<b, a>>}
           /\ (raw \in {<<"5", ",", "1", "0">>, <<"1", "0", ",", "5">>}
                  => outcome.pair = <<10, 5>>)

C7_Witness ==
    /\ raw = <<"5", ",", "1", "0">>
    /\ outcome = Returned(<<10, 5>>)

\* C8 (as stated): for a single integer token t the result is (int(t), 0).
C8_SingleIntegerGivesTokenAndZero ==
    (Converted /\ Len(Tokens) = 1 /\ IsInt(Tokens[1])) =>
        outcome = Returned(<<IntOf(Tokens[1]), 0>>)

\* C8 (amended): for a single integer token t the result is
\* (max(int(t), 0), min(int(t), 0)); it is (int(t), 0) exactly when int(t) >= 0.
C8_SingleIntegerSortedWithZero ==
    (Converted /\ Len(Tokens) = 1 /\ IsInt(Tokens[1])) =>
        LET t == IntOf(Tokens[1]) IN
        /\ outcome.kind = "return"
        /\ outcome.pair = (IF t >= 0 THEN <<t, 0>> ELSE <<0, t>>)

C8_Witness ==
    /\ raw = <<"-", "5">>
    /\ outcome = Returned(<<0, -5>>)

\* C9: for one or two tokens of which at least one is not an integer, convert
\* ends in the validator's own failure (self.fail) and in no other error, and
\* returns no pair.
C9_NonIntegerFailsThroughValidator ==
    (Converted /\ Len(Tokens) \in {1, 2}
         /\ \E i \in 1..Len(Tokens) : ~IsInt(Tokens[i])) =>
        outcome.kind = "fail"

(***************************************************************************)
(* Properties of one invocation (under Spec)                               *)
(***************************************************************************)
EventKinds == {events[i].e : i \in 1..Len(events)}

\* the position of the first event of a kind (0 when there is none)
FirstIndex(kind) ==
    IF kind \in EventKinds
    THEN CHOOSE i \in 1..Len(events) :
             events[i].e = kind /\ \A j \in 1..(i - 1) : events[j].e # kind
    ELSE 0

Count(kind) == Cardinality({i \in 1..Len(events) : events[i].e = kind})

\* the options of ctx.params that the reconstruction has to encode
Remaining == PopAll(params, Excluded)

\* the two tokens of each option of opts occur in argv, in the order of opts
RECURSIVE Embeds(_, _, _)
Embeds(argv, from, opts) ==
    IF opts = <<>> THEN TRUE
    ELSE \E i \in from..(Len(argv) - 1) :
             /\ argv[i] = "--" \o Head(opts).k
             /\ argv[i + 1] = PyStr(Head(opts).v)
             /\ Embeds(argv, i + 2, Tail(opts))

\* C1: the argument vector handed to detach() is ['-m', 'celery', 'worker']
\* followed by the encoding of every non-excluded option of the parsed map in
\* insertion order: each option with a non-boolean, non-None value gives
\* '--<name>' and str(value); no excluded key gives a token.
C1_ArgvEncodesEveryOption ==
    call.made =>
        /\ Len(call.argv) >= 3
        /\ SubSeq(call.argv, 1, 3) = <<"-m", "celery", "worker">>
        /\ Embeds(call.argv, 4,
                  SelectSeq(Remaining, LAMBDA o : o.v.t \notin {"bool", "none"}))
        /\ \A i \in 1..Len(call.argv) : \A k \in Excluded : call.argv[i] # "--" \o k

\* C2: in the reconstructed argument vector an option whose value is False or
\* None gives no token, and an option whose value is True gives exactly one
\* token '--<name>' with no value token after it.
C2_BooleanEncoding ==
    call.made =>
        \A n \in 1..Len(Remaining) :
            LET o == Remaining[n]
                at == {i \in 1..Len(call.argv) : call.argv[i] = "--" \o o.k}
            IN /\ (o.v.t = "none" \/ (o.v.t = "bool" /\ ~o.v.b)) => at = {}
               /\ (o.v.t = "bool" /\ o.v.b) =>
                      /\ Cardinality(at) = 1
                      /\ \A i \in at : i < Len(call.argv) => call.argv[i + 1] # "True"

\* C3: detach() never propagates an exec failure: when os.execv raises, it
\* sets up logging at ERROR, logs the failed command line at CRITICAL and
\* returns EX_FAILURE; it returns only in that case, with EX_FAILURE.
C3_ExecFailureIsLoggedAndReturned ==
    /\ (call.made /\ pc = "returned") =>
           LET n == Len(events) IN
           /\ retval = VInt(EX_FAILURE)
           /\ n >= 4
           /\ events[n - 3].e = "detached"
           /\ events[n - 2].e = "execv"
           /\ events[n - 1] = Event("setup_logging_subsystem", <<"ERROR">>)
           /\ events[n] = Event("critical", <<JoinSpace(Tail(events[n - 2].arg))>>)
    /\ ("execv" \in EventKinds) => pc \in {"returned", "exec_replaced"}
    /\ pc = "exec_replaced" => retval = VNone /\ "critical" \notin EventKinds

C3_Witness ==
    /\ pc = "returned"
    /\ call.made
    /\ call.executable = VStr("/opt/python")
    /\ retval = VInt(EX_FAILURE)
    /\ "critical" \in EventKinds

\* C4: the launch takes exactly one of two paths, decided by the detach flag
\* after the dynamic options are resolved.  Detach set: the worker is never
\* constructed or started and what worker() returns is the daemonizer's
\* failure code.  Detach not set: maybe_drop_privileges is called before the
\* worker is constructed, start() is called exactly once and worker() returns
\* the worker's exit code.
C4_ExactlyOnePath ==
    pc \in {"detach", "returned", "exec_replaced"} =>
        IF Truthy(Get(kwargs, "detach", VBool(FALSE)))
        THEN /\ EventKinds \cap {"maybe_drop_privileges", "Worker", "start"} = {}
             /\ call.made
             /\ pc = "returned" => retval = VInt(EX_FAILURE)
        ELSE /\ pc = "returned"
             /\ ~call.made
             /\ EventKinds \cap {"detached", "execv"} = {}
             /\ Count("maybe_drop_privileges") = 1
             /\ Count("Worker") = 1
             /\ Count("start") = 1
             /\ FirstIndex("maybe_drop_privileges") < FirstIndex("Worker")
             /\ FirstIndex("Worker") < FirstIndex("start")
             /\ retval = exitcode

C4_Witness ==
    /\ pc = "returned"
    /\ Get(cli.given, "detach", VBool(FALSE)) = VBool(TRUE)
    /\ Get(user_options, "detach", VBool(TRUE)) = VNone
    /\ "start" \in EventKinds
    /\ retval = VInt(2)

BeatGiven == Get(cli.given, "beat", VBool(FALSE))

\* C5: with the beat flag true on Windows, validation fails with a usage error
\* and neither detach() nor the construction or start of the worker is
\* reached; otherwise the value passes through unchanged.
C5_BeatOnWindowsFailsFirst ==
    IF cli.isWindows /\ BeatGiven.b
    THEN /\ pc \in {"parse", "usage_error"}
         /\ ~call.made
         /\ ~HasKey(params, "beat")
         /\ EventKinds \cap {"detached", "execv", "maybe_drop_privileges",
                             "Worker", "start"} = {}
         /\ Event("process", <<"beat">>) \in {events[i] : i \in 1..Len(events)}
                => pc = "usage_error"
    ELSE /\ HasKey(params, "beat") => Get(params, "beat", VNone) = BeatGiven
         /\ pc # "parse" => HasKey(params, "beat")

C5_Witness ==
    /\ cli.isWindows
    /\ BeatGiven = VBool(TRUE)
    /\ Get(cli.given, "detach", VBool(FALSE)) = VBool(TRUE)
    /\ pc = "usage_error"

\* C6 (as stated): the merge of the values collected in the second parse pass
\* never overrides a static option: every name in the map before the merge
\* has the same value after it.
C6_StaticNeverOverridden ==
    [][pc = "resolve" =>
          \A k \in Keys(kwargs) : Get(kwargs', k, VNone) = Get(kwargs, k, VNone)]_vars

\* C6 (amended): the merge is an update: after it every name collected in the
\* second parse pass has the value collected for it, also when a static option
\* has that name, and every other name of the map keeps its value.
C6_MergeIsUpdate ==
    [][pc = "resolve" =>
          /\ Keys(kwargs') = Keys(kwargs) \cup Keys(user_options')
          /\ \A k \in Keys(user_options') :
                 Get(kwargs', k, VNone) = Get(user_options', k, VBool(TRUE))
          /\ \A k \in Keys(kwargs) \ Keys(user_options') :
                 Get(kwargs', k, VNone) = Get(kwargs, k, VBool(TRUE))]_vars

C6_Witness ==
    /\ pc = "config"
    /\ Get(cli.given, "concurrency", VNone) = VInt(4)
    /\ Get(user_options, "concurrency", VNone) = VInt(7)
    /\ Get(kwargs, "concurrency", VNone) = VInt(7)

PoolGiven == Get(cli.given, "pool", Default("pool")).s

\* C10: when the pool identifier is 'eventlet' or 'gevent' the patch is
\* applied before the validator or callback of any other option runs and
\* before the pool implementation is resolved; for every other identifier
\* no patch call is made.
C10_PatchComesFirst ==
    IF PoolGiven \in {"eventlet", "gevent"}
    THEN \A i \in 1..Len(events) :
             events[i].e # "patch" =>
                 \E j \in 1..(i - 1) : events[j] = Event("patch", <<PoolGiven>>)
    ELSE "patch" \notin EventKinds

C10_Witness ==
    /\ Len(cli.given) = 2
    /\ cli.given[1].k = "concurrency"
    /\ cli.given[2] = [k |-> "pool", v |-> VStr("gevent")]
    /\ pc = "returned"
    /\ events[1] = Event("patch", <<"gevent">>)
    /\ events[2] = Event("get_implementation", <<"gevent">>)
    /\ events[3] = Event("process", <<"concurrency">>)

====
